---- MODULE Spec2Model ----
(***************************************************************************)
(* A model of squadron/service.py: the action catalog built by             *)
(* get_service_actions, the reaction list built by get_reactions, the      *)
(* file trigger _checkfiles and the reaction pass react.                   *)
(*                                                                         *)
(* Python strings that the code inspects character by character (action    *)
(* names, glob patterns, changed paths) are sequences of one-character     *)
(* strings, so that "'.' in name", "service_name + '.' + name" and glob     *)
(* matching are computed as the code computes them.  Command lines are      *)
(* opaque strings: the code only hands them to subprocess.                  *)
(***************************************************************************)
EXTENDS Integers, Sequences, FiniteSets, TLC

VARIABLES
    service_name,    \* get_service_actions / get_reactions: service_name
    action_desc,     \* the raw action documents (a dict), mutated in place
    action_desc0,    \* the raw action documents as get_service_json returned them
    actions,         \* the catalog returned by get_service_actions
    reactions_desc,  \* the raw reaction documents (a list), mutated in place
    reactions,       \* the list returned by get_reactions
    paths_changed,   \* react: paths_changed
    load,            \* where the caller is: which of the two loaders has run
    passes,          \* the react invocations of this behaviour
    pc,              \* per pass: position inside react
    ri,              \* per pass: index of `reaction` in `reactions`
    ai,              \* per pass: index of `action` in reaction['execute']
    done_actions,    \* per pass: react's local set done_actions
    log              \* per pass: what the pass did so far, in order

vars == <<service_name, action_desc, action_desc0, actions, reactions_desc, reactions,
          paths_changed, load, passes, pc, ri, ai, done_actions, log>>

inputs == <<service_name, paths_changed, action_desc0>>
loaded == <<action_desc, actions, reactions_desc, reactions, load>>

(***************************************************************************)
(* Bounds of the model.                                                    *)
(***************************************************************************)
\* longest reaction list drawn from ReactionPool
MaxReactions == 2
\* a probe command exits with a status in 0..MaxExit
MaxExit == 1

(***************************************************************************)
(* Strings.                                                                *)
(***************************************************************************)
Svc         == <<"s", "v", "c">>
Build       == <<"b", "u", "i", "l", "d">>
Deploy      == <<"d", "e", "p", "l", "o", "y">>
Rollback    == <<"r", "o", "l", "l", "b", "a", "c", "k">>
Missing     == <<"m", "i", "s", "s", "i", "n", "g">>
SvcBuild    == Svc \o <<".">> \o Build
SvcDeploy   == Svc \o <<".">> \o Deploy
SvcRollback == Svc \o <<".">> \o Rollback
AppConf     == <<"a", "p", "p", ".", "c", "o", "n", "f">>
ReadmeMd    == <<"r", "e", "a", "d", "m", "e", ".", "m", "d">>
StarConf    == <<"*", ".", "c", "o", "n", "f">>
QMd         == <<"r", "e", "a", "d", "m", "?", ".", "m", "d">>

Range(s) == {s[i] : i \in DOMAIN s}

\* Python's `'.' in name`
HasDot(name) == \E i \in DOMAIN name : name[i] = "."

qualify_always(sn, name) == sn \o <<".">> \o name

\* lines 86-89 and 114-117: a name with a dot is kept, any other gets
\* service_name + '.' in front
qualify(sn, name) == IF ~HasDot(name) THEN sn \o <<".">> \o name ELSE name

qualify_all(sn, names) == [i \in DOMAIN names |-> qualify(sn, names[i])]

\* jsonschema's uniqueItems
UniqueItems(s) == \A i, j \in DOMAIN s : i # j => s[i] # s[j]

(***************************************************************************)
(* get_service_actions                                                     *)
(***************************************************************************)
\* jsonschema.validate(v, _action_schema)
validate_action(v) ==
    /\ "command" \in DOMAIN v
    /\ "not_after" \in DOMAIN v => UniqueItems(v.not_after)

namespace_action_keeps(sn, v) == v

\* the body of the loop over action_desc.items() for one item: the document
\* with its not_after namespaced (the code assigns it back into v)
namespace_action(sn, v) ==
    IF "not_after" \in DOMAIN v
    THEN [v EXCEPT !.not_after = qualify_all(sn, v.not_after)]
    ELSE v

RECURSIVE service_actions_loop_nocheck(_, _, _, _)
service_actions_loop_nocheck(sn, order, result, docs) ==
    IF order = <<>>
    THEN [status |-> "ok", result |-> result, docs |-> docs]
    ELSE LET k == Head(order)
             v == docs[k]
         IN  IF ~validate_action(v)
             THEN [status |-> "ValidationError", result |-> <<>>, docs |-> docs]
             ELSE LET w == IF "not_after" \in DOMAIN v
                           THEN [v EXCEPT !.not_after = qualify_all(sn, v.not_after)]
                           ELSE v
                  IN  service_actions_loop_nocheck(sn, Tail(order),
                          result @@ ((sn \o <<".">> \o k) :> w),
                          [docs EXCEPT ![k] = w])

\* the loop, visiting the keys in `order`: the catalog so far in `result`,
\* the documents as mutated so far in `docs`
RECURSIVE service_actions_loop(_, _, _, _)
service_actions_loop(sn, order, result, docs) ==
    IF order = <<>>
    THEN [status |-> "ok", result |-> result, docs |-> docs]
    ELSE LET k == Head(order)
             v == docs[k]
         IN  IF HasDot(k)
             THEN [status |-> "ValueError", result |-> <<>>, docs |-> docs]
             ELSE IF ~validate_action(v)
             THEN [status |-> "ValidationError", result |-> <<>>, docs |-> docs]
             ELSE LET w == namespace_action(sn, v)
                  IN  service_actions_loop(sn, Tail(order),
                          result @@ ((sn \o <<".">> \o k) :> w),
                          [docs EXCEPT ![k] = w])

\* the orders in which a dict of these keys may be iterated
Orders(keys) ==
    {o \in [1..Cardinality(keys) -> keys] : \A i, j \in DOMAIN o : i # j => o[i] # o[j]}

get_service_actions ==
    /\ load = "start"
    /\ \E order \in Orders(DOMAIN action_desc) :
         LET r == service_actions_loop(service_name, order, <<>>, action_desc)
         IN  /\ action_desc' = r.docs
             /\ actions' = r.result
             /\ load' = IF r.status = "ok" THEN "actions" ELSE r.status
    /\ UNCHANGED <<inputs, reactions_desc, reactions, passes, pc, ri, ai,
                   done_actions, log>>

(***************************************************************************)
(* get_reactions                                                           *)
(***************************************************************************)
\* one item of _reaction_schema
validate_reaction(reaction) ==
    /\ "execute" \in DOMAIN reaction
    /\ Len(reaction.execute) >= 1
    /\ UniqueItems(reaction.execute)

\* jsonschema.validate(reactions_desc, _reaction_schema)
validate_reactions(desc) == \A i \in DOMAIN desc : validate_reaction(desc[i])

namespace_reaction(sn, reaction) ==
    [reaction EXCEPT !.execute = qualify_all(sn, reaction.execute)]

get_reactions ==
    /\ load = "actions"
    /\ IF validate_reactions(reactions_desc)
       THEN /\ reactions_desc' = [i \in DOMAIN reactions_desc |->
                                    namespace_reaction(service_name, reactions_desc[i])]
            /\ reactions' = reactions_desc'
            /\ load' = "loaded"
       ELSE /\ load' = "ValidationError"
            /\ UNCHANGED <<reactions_desc, reactions>>
    /\ UNCHANGED <<inputs, action_desc, actions, passes, pc, ri, ai,
                   done_actions, log>>

(***************************************************************************)
(* _checkfiles                                                             *)
(***************************************************************************)
\* fnmatch's glob: '*' matches any run of characters, '?' any one character,
\* every other character itself
fnmatch_literal(name, pat) == name = pat

RECURSIVE fnmatch(_, _)
fnmatch(name, pat) ==
    IF pat = <<>> THEN name = <<>>
    ELSE IF Head(pat) = "*"
         THEN fnmatch(name, Tail(pat)) \/ (name # <<>> /\ fnmatch(Tail(name), pat))
         ELSE /\ name # <<>>
              /\ Head(pat) = "?" \/ Head(pat) = Head(name)
              /\ fnmatch(Tail(name), Tail(pat))

\* fnmatch.filter(paths_changed, pattern)
fnmatch_filter(names, pat) == SelectSeq(names, LAMBDA n : fnmatch(n, pat))

_checkfiles_first(filepatterns, paths) ==
    filepatterns # <<>> /\ fnmatch_filter(paths, filepatterns[1]) # <<>>

_checkfiles(filepatterns, paths) ==
    \E i \in DOMAIN filepatterns : fnmatch_filter(paths, filepatterns[i]) # <<>>

(***************************************************************************)
(* react                                                                   *)
(***************************************************************************)
NoStatus == 0 - 1

\* line 152: the reaction of this iteration
reaction_at(p) == reactions[ri[p]]

action_at_reversed(p) ==
    reaction_at(p).execute[Len(reaction_at(p).execute) + 1 - ai[p]]

\* line 168: the reference of this iteration
action_at(p) == reaction_at(p).execute[ai[p]]

\* one entry of the log of a pass: what happened at reaction ri, reference ai
\* (0 for the trigger), how it ended, whether the reaction fired
\* and, for a probe that exited, its status (NoStatus otherwise)
Event(ev, p, a, name, out, fired) ==
    [ev |-> ev, ri |-> ri[p], ai |-> a, action |-> name, out |-> out,
     fired |-> fired, ret |-> NoStatus]

command_fires_on_zero(ret, exitcode) == ret = 0

\* line 159: the probe's status against when['exitcode']
command_fires(ret, exitcode) == ret = exitcode

already_done_never(done, action) == FALSE

\* line 170
already_done(done, action) == action \in done

\* lines 172-175
not_after_of(action_item) ==
    IF "not_after" \in DOMAIN action_item THEN Range(action_item.not_after) ELSE {}

may_run_always(done, action_item) == TRUE

\* line 177
may_run(done, action_item) == done \cap not_after_of(action_item) = {}

after_check_call_never(done, action, out) == done

after_check_call_always(done, action, out) == done \cup {action}

after_check_call_only(done, action, out) ==
    IF out = "ok" THEN {action} ELSE done

\* lines 181-186: done_actions after check_call ended with `out`
after_check_call(done, action, out) ==
    IF out = "ok" THEN done \cup {action} ELSE done

\* lines 181-186: where react is after check_call ended with `out`; a non-zero
\* status is CalledProcessError, printed and raised again, a command that
\* cannot be started is OSError
pc_after_check_call(out) ==
    CASE out = "ok"      -> "execute"
      [] out = "nonzero" -> "CalledProcessError"
      [] OTHER           -> "OSError"

react_begin_keeps(p) ==
    /\ load = "loaded"
    /\ pc[p] = "idle"
    /\ pc' = [pc EXCEPT ![p] = "reaction"]
    /\ ri' = [ri EXCEPT ![p] = 1]
    /\ done_actions' = [done_actions EXCEPT ![p] = UNION {done_actions[q] : q \in passes}]
    /\ UNCHANGED <<inputs, loaded, passes, ai, log>>

\* line 151
react_begin(p) ==
    /\ load = "loaded"
    /\ pc[p] = "idle"
    /\ pc' = [pc EXCEPT ![p] = "reaction"]
    /\ ri' = [ri EXCEPT ![p] = 1]
    /\ done_actions' = [done_actions EXCEPT ![p] = {}]
    /\ UNCHANGED <<inputs, loaded, passes, ai, log>>

\* line 152: the list is exhausted, react returns
react_end(p) ==
    /\ pc[p] = "reaction"
    /\ ri[p] > Len(reactions)
    /\ pc' = [pc EXCEPT ![p] = "done"]
    /\ UNCHANGED <<inputs, loaded, passes, ri, ai, done_actions, log>>

\* the reaction fires: on to line 168
fire(p, ev, out, ret) ==
    /\ pc' = [pc EXCEPT ![p] = "execute"]
    /\ ai' = [ai EXCEPT ![p] = 1]
    /\ log' = [log EXCEPT ![p] = Append(@, [Event(ev, p, 0, <<>>, out, TRUE) EXCEPT !.ret = ret])]
    /\ UNCHANGED ri

\* `continue` at line 160 or 163
continue(p, ev, out, ret) ==
    /\ ri' = [ri EXCEPT ![p] = @ + 1]
    /\ log' = [log EXCEPT ![p] = Append(@, [Event(ev, p, 0, <<>>, out, FALSE) EXCEPT !.ret = ret])]
    /\ UNCHANGED <<pc, ai>>

\* an exception leaves react
raise(p, exc, ev, a, name, out) ==
    /\ pc' = [pc EXCEPT ![p] = exc]
    /\ log' = [log EXCEPT ![p] = Append(@, Event(ev, p, a, name, out, FALSE))]
    /\ UNCHANGED <<ri, ai>>

\* line 153: no 'when', the reaction fires
react_no_when(p) ==
    /\ pc[p] = "reaction"
    /\ ri[p] <= Len(reactions)
    /\ "when" \notin DOMAIN reaction_at(p)
    /\ fire(p, "when_none", "fired", NoStatus)
    /\ UNCHANGED <<inputs, loaded, passes, done_actions>>

react_when_command_checks_files(p) ==
    /\ pc[p] = "reaction"
    /\ ri[p] <= Len(reactions)
    /\ "when" \in DOMAIN reaction_at(p)
    /\ LET when == reaction_at(p).when
       IN  /\ "command" \in DOMAIN when
           /\ IF "exitcode" \notin DOMAIN when
              THEN raise(p, "KeyError", "when_command", 0, <<>>, "no_exitcode")
              ELSE \/ \E ret \in 0..MaxExit :
                        IF /\ command_fires(ret, when.exitcode)
                           /\ "files" \in DOMAIN when => _checkfiles(when.files, paths_changed)
                        THEN fire(p, "when_command", "fired", ret)
                        ELSE continue(p, "when_command", "skipped", ret)
                   \/ raise(p, "OSError", "when_command", 0, <<>>, "launch")
    /\ UNCHANGED <<inputs, loaded, passes, done_actions>>

\* lines 155-160: the command probe
react_when_command(p) ==
    /\ pc[p] = "reaction"
    /\ ri[p] <= Len(reactions)
    /\ "when" \in DOMAIN reaction_at(p)
    /\ LET when == reaction_at(p).when
       IN  /\ "command" \in DOMAIN when
           /\ IF "exitcode" \notin DOMAIN when
              THEN raise(p, "KeyError", "when_command", 0, <<>>, "no_exitcode")
              ELSE \/ \E ret \in 0..MaxExit :
                        IF command_fires(ret, when.exitcode)
                        THEN fire(p, "when_command", "fired", ret)
                        ELSE continue(p, "when_command", "skipped", ret)
                   \/ raise(p, "OSError", "when_command", 0, <<>>, "launch")
    /\ UNCHANGED <<inputs, loaded, passes, done_actions>>

\* lines 161-163: the file trigger
react_when_files(p) ==
    /\ pc[p] = "reaction"
    /\ ri[p] <= Len(reactions)
    /\ "when" \in DOMAIN reaction_at(p)
    /\ LET when == reaction_at(p).when
       IN  /\ "command" \notin DOMAIN when
           /\ "files" \in DOMAIN when
           /\ IF _checkfiles(when.files, paths_changed)
              THEN fire(p, "when_files", "fired", NoStatus)
              ELSE continue(p, "when_files", "skipped", NoStatus)
    /\ UNCHANGED <<inputs, loaded, passes, done_actions>>

react_when_neither_fires(p) ==
    /\ pc[p] = "reaction"
    /\ ri[p] <= Len(reactions)
    /\ "when" \in DOMAIN reaction_at(p)
    /\ LET when == reaction_at(p).when
       IN  /\ "command" \notin DOMAIN when
           /\ "files" \notin DOMAIN when
    /\ fire(p, "when_neither", "fired", NoStatus)
    /\ UNCHANGED <<inputs, loaded, passes, done_actions>>

\* lines 164-165
react_when_neither(p) ==
    /\ pc[p] = "reaction"
    /\ ri[p] <= Len(reactions)
    /\ "when" \in DOMAIN reaction_at(p)
    /\ LET when == reaction_at(p).when
       IN  /\ "command" \notin DOMAIN when
           /\ "files" \notin DOMAIN when
    /\ raise(p, "ValueError_when", "when_neither", 0, <<>>, "raised")
    /\ UNCHANGED <<inputs, loaded, passes, done_actions>>

\* line 168: the execute list is exhausted, on to the next reaction
react_next_reaction(p) ==
    /\ pc[p] = "execute"
    /\ ai[p] > Len(reaction_at(p).execute)
    /\ pc' = [pc EXCEPT ![p] = "reaction"]
    /\ ri' = [ri EXCEPT ![p] = @ + 1]
    /\ UNCHANGED <<inputs, loaded, passes, ai, done_actions, log>>

react_unknown_action_skips(p) ==
    /\ pc[p] = "execute"
    /\ ai[p] <= Len(reaction_at(p).execute)
    /\ action_at(p) \notin DOMAIN actions
    /\ ai' = [ai EXCEPT ![p] = @ + 1]
    /\ log' = [log EXCEPT ![p] = Append(@, Event("unknown", p, ai[p], action_at(p), "skipped", FALSE))]
    /\ UNCHANGED <<inputs, loaded, passes, pc, ri, done_actions>>

react_unknown_action_silent(p) ==
    /\ pc[p] = "execute"
    /\ ai[p] <= Len(reaction_at(p).execute)
    /\ action_at(p) \notin DOMAIN actions
    /\ ai' = [ai EXCEPT ![p] = @ + 1]
    /\ UNCHANGED <<inputs, loaded, passes, pc, ri, done_actions, log>>

\* lines 187-190
react_unknown_action(p) ==
    /\ pc[p] = "execute"
    /\ ai[p] <= Len(reaction_at(p).execute)
    /\ action_at(p) \notin DOMAIN actions
    /\ raise(p, "ValueError_action", "unknown", ai[p], action_at(p), "raised")
    /\ UNCHANGED <<inputs, loaded, passes, done_actions>>

\* line 170 false: the action ran in this pass already
react_skip_done(p) ==
    /\ pc[p] = "execute"
    /\ ai[p] <= Len(reaction_at(p).execute)
    /\ action_at(p) \in DOMAIN actions
    /\ already_done(done_actions[p], action_at(p))
    /\ ai' = [ai EXCEPT ![p] = @ + 1]
    /\ log' = [log EXCEPT ![p] = Append(@, Event("skip_done", p, ai[p], action_at(p), "skipped", FALSE))]
    /\ UNCHANGED <<inputs, loaded, passes, pc, ri, done_actions>>

react_skip_not_after_marks(p) ==
    /\ pc[p] = "execute"
    /\ ai[p] <= Len(reaction_at(p).execute)
    /\ action_at(p) \in DOMAIN actions
    /\ ~already_done(done_actions[p], action_at(p))
    /\ ~may_run(done_actions[p], actions[action_at(p)])
    /\ ai' = [ai EXCEPT ![p] = @ + 1]
    /\ done_actions' = [done_actions EXCEPT ![p] = @ \cup {action_at(p)}]
    /\ log' = [log EXCEPT ![p] = Append(@, Event("skip_not_after", p, ai[p], action_at(p), "skipped", FALSE))]
    /\ UNCHANGED <<inputs, loaded, passes, pc, ri>>

\* line 177 false: an action of not_after ran in this pass already
react_skip_not_after(p) ==
    /\ pc[p] = "execute"
    /\ ai[p] <= Len(reaction_at(p).execute)
    /\ action_at(p) \in DOMAIN actions
    /\ ~already_done(done_actions[p], action_at(p))
    /\ ~may_run(done_actions[p], actions[action_at(p)])
    /\ ai' = [ai EXCEPT ![p] = @ + 1]
    /\ log' = [log EXCEPT ![p] = Append(@, Event("skip_not_after", p, ai[p], action_at(p), "skipped", FALSE))]
    /\ UNCHANGED <<inputs, loaded, passes, pc, ri, done_actions>>

react_run_shared(p) ==
    /\ pc[p] = "execute"
    /\ ai[p] <= Len(reaction_at(p).execute)
    /\ action_at(p) \in DOMAIN actions
    /\ ~already_done(done_actions[p], action_at(p))
    /\ may_run(done_actions[p], actions[action_at(p)])
    /\ \E out \in {"ok", "nonzero", "launch"} :
         /\ done_actions' = [q \in passes |->
                               after_check_call(done_actions[q], action_at(p), out)]
         /\ pc' = [pc EXCEPT ![p] = pc_after_check_call(out)]
         /\ ai' = [ai EXCEPT ![p] = IF pc_after_check_call(out) = "execute" THEN @ + 1 ELSE @]
         /\ log' = [log EXCEPT ![p] = Append(@, Event("run", p, ai[p], action_at(p), out, FALSE))]
    /\ UNCHANGED <<inputs, loaded, passes, ri>>

\* lines 179-186: the command runs
react_run(p) ==
    /\ pc[p] = "execute"
    /\ ai[p] <= Len(reaction_at(p).execute)
    /\ action_at(p) \in DOMAIN actions
    /\ ~already_done(done_actions[p], action_at(p))
    /\ may_run(done_actions[p], actions[action_at(p)])
    /\ \E out \in {"ok", "nonzero", "launch"} :
         /\ done_actions' = [done_actions EXCEPT ![p] =
                               after_check_call(@, action_at(p), out)]
         /\ pc' = [pc EXCEPT ![p] = pc_after_check_call(out)]
         /\ ai' = [ai EXCEPT ![p] = IF pc_after_check_call(out) = "execute" THEN @ + 1 ELSE @]
         /\ log' = [log EXCEPT ![p] = Append(@, Event("run", p, ai[p], action_at(p), out, FALSE))]
    /\ UNCHANGED <<inputs, loaded, passes, ri>>

(***************************************************************************)
(* The documents and changed paths the behaviours start from.              *)
(***************************************************************************)
Doc(command) == [command |-> command]
DocNotAfter(command, not_after) == [command |-> command, not_after |-> not_after]

BuildDocs ==
    {Doc("make"), DocNotAfter("make", <<Deploy, SvcDeploy>>)}
DeployDocs ==
    {Doc("make deploy"), DocNotAfter("make deploy", <<Build>>),
     DocNotAfter("make deploy", <<SvcRollback>>)}

ActionDescs ==
    {(Build :> b) @@ (Deploy :> d) @@ (Rollback :> Doc("make rollback")) :
        b \in BuildDocs, d \in DeployDocs}
    \cup {(SvcBuild :> Doc("make")) @@ (Deploy :> DocNotAfter("make deploy", <<Build>>))}
    \cup {(Build :> [not_after |-> <<Deploy>>]) @@ (Deploy :> DocNotAfter("make deploy", <<Build>>))}

When(command, exitcode) == [command |-> command, exitcode |-> exitcode]

ReactionPool ==
    { [execute |-> <<Build>>],
      [execute |-> <<Deploy>>],
      [execute |-> <<SvcBuild, SvcDeploy>>],
      [execute |-> <<SvcRollback>>, when |-> [files |-> <<StarConf>>]],
      [execute |-> <<Deploy, Build>>, when |-> When("test -e flag", 0)],
      [execute |-> <<Build, SvcBuild>>, when |-> When("test -e flag", 1)],
      [execute |-> <<Missing, Build>>],
      [execute |-> <<Build>>, when |-> [exitcode |-> 0]],
      [execute |-> <<Deploy>>, when |-> [command |-> "test -e flag"]],
      [execute |-> <<Rollback>>,
       when |-> [command |-> "test -e flag", exitcode |-> 0, files |-> <<QMd>>]],
      [execute |-> <<Build>>, when |-> [files |-> <<>>]] }

ReactionDescs ==
    UNION {[1..n -> ReactionPool] : n \in 0..MaxReactions}
    \cup {<<[execute |-> <<>>]>>, <<[execute |-> <<Build, Build>>]>>}

PathLists == {<<>>, <<AppConf>>, <<ReadmeMd>>}

Init ==
    /\ service_name = Svc
    /\ action_desc \in ActionDescs
    /\ action_desc0 = action_desc
    /\ actions = <<>>
    /\ reactions_desc \in ReactionDescs
    /\ reactions = <<>>
    /\ paths_changed \in PathLists
    /\ load = "start"
    /\ passes = {1}
    /\ pc = [p \in passes |-> "idle"]
    /\ ri = [p \in passes |-> 0]
    /\ ai = [p \in passes |-> 0]
    /\ done_actions = [p \in passes |-> {}]
    /\ log = [p \in passes |-> <<>>]

Next ==
    \/ get_service_actions
    \/ get_reactions
    \/ \E p \in passes : react_begin(p)
    \/ \E p \in passes : react_end(p)
    \/ \E p \in passes : react_no_when(p)
    \/ \E p \in passes : react_when_command(p)
    \/ \E p \in passes : react_when_files(p)
    \/ \E p \in passes : react_when_neither(p)
    \/ \E p \in passes : react_next_reaction(p)
    \/ \E p \in passes : react_unknown_action(p)
    \/ \E p \in passes : react_skip_done(p)
    \/ \E p \in passes : react_skip_not_after(p)
    \/ \E p \in passes : react_run(p)

(***************************************************************************)
(* Reading the log of a pass.                                              *)
(***************************************************************************)
\* the actions whose command was invoked, in the order of invocation
Executed(p) ==
    LET runs == SelectSeq(log[p], LAMBDA e : e.ev = "run")
    IN  [i \in DOMAIN runs |-> runs[i].action]

\* how often the command of `action` was invoked
Invocations(p, action) ==
    Cardinality({i \in DOMAIN log[p] : log[p][i].ev = "run" /\ log[p][i].action = action})

\* done_actions when the i-th entry of the log was about to happen
DoneBefore(p, i) ==
    {log[p][j].action : j \in {k \in 1..(i - 1) : log[p][k].ev = "run" /\ log[p][k].out = "ok"}}

\* the entries where react considered a reference that is in the catalog
Considered(p) ==
    {i \in DOMAIN log[p] : log[p][i].ev \in {"run", "skip_done", "skip_not_after"}}

\* the entries where a command was started: a probe or an action's command
IsCommand(e) ==
    \/ e.ev = "run"
    \/ e.ev = "when_command" /\ e.out # "no_exitcode"

\* the reactions that fired so far
Fired(p) == {log[p][i].ri : i \in {k \in DOMAIN log[p] : log[p][k].fired}}

Ended(p) == pc[p] \notin {"idle", "reaction", "execute"}

\* the references react has not reached yet
Remaining(p) ==
    \/ ri[p] < Len(reactions)
    \/ ri[p] \in DOMAIN reactions /\ ai[p] < Len(reactions[ri[p]].execute)

(***************************************************************************)
(* C1  At-most-once: in a pass, no action's command is invoked more than   *)
(* once, also when the action is in the execute lists of several firing    *)
(* reactions.                                                              *)
(***************************************************************************)
AtMostOnce ==
    \A p \in passes : \A i \in DOMAIN log[p] :
        Invocations(p, log[p][i].action) <= 1

\* a pass that ran an action for one reaction, met it again in another
\* reaction that fired, and returned
AtMostOnceWitness ==
    \E p \in passes :
        /\ pc[p] = "done"
        /\ \E i, j \in DOMAIN log[p] :
             /\ log[p][i].ev = "run"
             /\ log[p][j].ev = "skip_done"
             /\ log[p][j].action = log[p][i].action
             /\ log[p][j].ri > log[p][i].ri

(***************************************************************************)
(* C2  Exclusion soundness.  As claimed: if an action B of A's not_after   *)
(* is in done_actions when A is considered, A is executed nowhere in the   *)
(* pass.                                                                   *)
(***************************************************************************)
ExclusionSoundnessWholePass ==
    \A p \in passes : \A i \in Considered(p) :
        DoneBefore(p, i) \cap not_after_of(actions[log[p][i].action]) # {}
            => Invocations(p, log[p][i].action) = 0

(***************************************************************************)
(* C2, amended: if an action B of A's not_after is in done_actions when A  *)
(* is considered, A is executed neither then nor later in the pass (A may  *)
(* have been executed before B was).                                       *)
(***************************************************************************)
ExclusionSoundness ==
    \A p \in passes : \A i \in Considered(p) :
        DoneBefore(p, i) \cap not_after_of(actions[log[p][i].action]) # {}
            => \A j \in DOMAIN log[p] :
                   j >= i => ~(log[p][j].ev = "run" /\ log[p][j].action = log[p][i].action)

\* a pass that skipped an action because an action of its not_after had run,
\* met it again later, and returned
ExclusionSoundnessWitness ==
    \E p \in passes :
        /\ pc[p] = "done"
        /\ \E i, j \in DOMAIN log[p] :
             /\ i < j
             /\ log[p][i].ev = "skip_not_after"
             /\ log[p][j].ev = "skip_not_after"
             /\ log[p][j].action = log[p][i].action

(***************************************************************************)
(* C3  Fail-fast: when an action's command exits non-zero the pass ends    *)
(* with the error, the action is not added to done_actions, and no later   *)
(* action and no later probe is executed.                                  *)
(***************************************************************************)
FailFast ==
    \A p \in passes :
        /\ \A i \in DOMAIN log[p] :
             (log[p][i].ev = "run" /\ log[p][i].out = "nonzero")
                 => /\ i = Len(log[p])
                    /\ pc[p] = "CalledProcessError"
                    /\ log[p][i].action \notin done_actions[p]
        /\ pc[p] = "CalledProcessError"
             => /\ log[p] # <<>>
                /\ log[p][Len(log[p])].ev = "run"
                /\ log[p][Len(log[p])].out = "nonzero"

\* a pass that failed on an action after another one had succeeded, with
\* references still ahead
FailFastWitness ==
    \E p \in passes :
        /\ pc[p] = "CalledProcessError"
        /\ done_actions[p] # {}
        /\ Remaining(p)

(***************************************************************************)
(* C4  Unknown action abort: when react reaches, in the execute list of a  *)
(* reaction that fired, a reference that is no key of the catalog, the     *)
(* pass ends there with the error; nothing after it is processed.          *)
(***************************************************************************)
UnknownActionAborts ==
    \A p \in passes :
        /\ \A r \in Fired(p) : \A k \in DOMAIN reactions[r].execute :
             reactions[r].execute[k] \notin DOMAIN actions
                 => /\ r = ri[p]
                    /\ k >= ai[p]
                    /\ k = ai[p] => pc[p] \in {"execute", "ValueError_action"}
        /\ pc[p] = "ValueError_action"
             => /\ action_at(p) \notin DOMAIN actions
                /\ log[p] # <<>>
                /\ log[p][Len(log[p])].ev = "unknown"
                /\ log[p][Len(log[p])].ri = ri[p]
                /\ log[p][Len(log[p])].ai = ai[p]
        /\ \A i \in DOMAIN log[p] :
             log[p][i].ev = "unknown"
                 => i = Len(log[p]) /\ pc[p] = "ValueError_action"

\* a pass that ended on an unknown reference with references still ahead,
\* after an action had run
UnknownActionAbortsWitness ==
    \E p \in passes :
        /\ pc[p] = "ValueError_action"
        /\ done_actions[p] # {}
        /\ Remaining(p)

(***************************************************************************)
(* C5  Unknown action before any command.  As claimed: a pass over a       *)
(* reaction list that holds a reference absent from the catalog ends with  *)
(* the unknown-action error, and before any command has run.               *)
(***************************************************************************)
HasUnknownReference ==
    \E r \in DOMAIN reactions : \E k \in DOMAIN reactions[r].execute :
        reactions[r].execute[k] \notin DOMAIN actions

DeclaredBefore(e, f) == e.ri < f.ri \/ (e.ri = f.ri /\ e.ai < f.ai)

Neither(reaction) ==
    /\ "when" \in DOMAIN reaction
    /\ "command" \notin DOMAIN reaction.when
    /\ "files" \notin DOMAIN reaction.when

OrderSensitivitySkipReached ==
    \E p \in passes : \E A, B \in DOMAIN actions :
        /\ pc[p] = "done"
        /\ not_after_of(actions[B]) = {A}
        /\ not_after_of(actions[A]) = {}
        /\ Len(reactions) = 2
        /\ Fired(p) = {1, 2}
        /\ reactions[1].execute = <<A>>
        /\ reactions[2].execute = <<B>>
        /\ Executed(p) = <<A>>

(***************************************************************************)
(* C8  Run-state monotonicity: done_actions is empty when a pass starts;   *)
(* a step leaves it unchanged or adds exactly the action whose command     *)
(* just succeeded; no step removes an element.                             *)
(***************************************************************************)
DoneMonotone ==
    [][\A p \in passes :
         /\ (pc[p] = "idle" /\ pc'[p] # "idle") => done_actions'[p] = {}
         /\ pc[p] # "idle"
              => /\ done_actions[p] \subseteq done_actions'[p]
                 /\ \/ done_actions'[p] = done_actions[p]
                    \/ /\ log'[p] = Append(log[p], log'[p][Len(log'[p])])
                       /\ log'[p][Len(log'[p])].ev = "run"
                       /\ log'[p][Len(log'[p])].out = "ok"
                       /\ log'[p][Len(log'[p])].action \notin done_actions[p]
                       /\ done_actions'[p] =
                            done_actions[p] \cup {log'[p][Len(log'[p])].action}
                 /\ ( /\ Len(log'[p]) = Len(log[p]) + 1
                      /\ log'[p][Len(log'[p])].ev = "run"
                      /\ log'[p][Len(log'[p])].out = "ok" )
                        => log'[p][Len(log'[p])].action \in done_actions'[p]
      ]_vars

\* a pass in which three commands succeeded
DoneMonotoneWitness ==
    \E p \in passes : Cardinality(done_actions[p]) >= 3

(***************************************************************************)
(* C9  Declared-order execution: the commands a pass executed are, in      *)
(* order, a subsequence of the execute lists of the reactions that fired,  *)
(* concatenated in declared order; and the trigger of a reaction is        *)
(* evaluated only after every action of the reaction before it has been    *)
(* executed or skipped.                                                    *)
(***************************************************************************)
RECURSIVE IsSubseq(_, _)
IsSubseq(s, t) ==
    IF s = <<>> THEN TRUE
    ELSE IF t = <<>> THEN FALSE
    ELSE IF Head(s) = Head(t) THEN IsSubseq(Tail(s), Tail(t))
    ELSE IsSubseq(s, Tail(t))

RECURSIVE FiredExecute(_, _)
FiredExecute(p, r) ==
    IF r > Len(reactions) THEN <<>>
    ELSE (IF r \in Fired(p) THEN reactions[r].execute ELSE <<>>) \o FiredExecute(p, r + 1)

IsTrigger(e) == e.ev \in {"when_none", "when_command", "when_files", "when_neither"}

Settled(e) ==
    \/ e.ev \in {"skip_done", "skip_not_after"}
    \/ e.ev = "run" /\ e.out = "ok"

DeclaredOrder ==
    \A p \in passes :
        /\ IsSubseq(Executed(p), FiredExecute(p, 1))
        /\ \A j \in DOMAIN log[p] :
             (IsTrigger(log[p][j]) /\ log[p][j].ri > 1)
                 => \E t \in 1..(j - 1) :
                      /\ IsTrigger(log[p][t])
                      /\ log[p][t].ri = log[p][j].ri - 1
                      /\ log[p][t].fired
                           => \A k \in DOMAIN reactions[log[p][t].ri].execute :
                                \E m \in (t + 1)..(j - 1) :
                                    /\ log[p][m].ri = log[p][t].ri
                                    /\ log[p][m].ai = k
                                    /\ log[p][m].action = reactions[log[p][t].ri].execute[k]
                                    /\ Settled(log[p][m])

\* a pass in which two reactions fired, the first with two references of
\* which one ran and one was skipped, before the second ran an action
DeclaredOrderWitness ==
    \E p \in passes :
        /\ pc[p] = "done"
        /\ Fired(p) = {1, 2}
        /\ Len(reactions[1].execute) = 2
        /\ Len(Executed(p)) = 2
        /\ \E i, j \in DOMAIN log[p] :
             /\ i < j
             /\ log[p][i].ev = "skip_not_after" /\ log[p][i].ri = 1
             /\ log[p][j].ev = "run" /\ log[p][j].ri = 2

(***************************************************************************)
(* C10  The scenario of the catalog {svc.build, svc.deploy not after       *)
(* svc.rollback, svc.rollback} and the reactions [svc.rollback when files  *)
(* *.conf, svc.build then svc.deploy]: with every command succeeding the   *)
(* pass executes rollback, build when a changed path matches *.conf, and   *)
(* build, deploy when none does.                                           *)
(***************************************************************************)
ScenarioCatalog ==
    (SvcBuild :> Doc("make"))
    @@ (SvcDeploy :> DocNotAfter("make deploy", <<SvcRollback>>))
    @@ (SvcRollback :> Doc("make rollback"))

ScenarioReactions ==
    << [execute |-> <<SvcRollback>>, when |-> [files |-> <<StarConf>>]],
       [execute |-> <<SvcBuild, SvcDeploy>>] >>

\* the changed path ends in ".conf"
EndsInConf(path) ==
    /\ Len(path) >= Len(StarConf) - 1
    /\ SubSeq(path, Len(path) - Len(StarConf) + 2, Len(path)) = Tail(StarConf)

ConcreteScenario ==
    \A p \in passes :
        (pc[p] = "done" /\ actions = ScenarioCatalog /\ reactions = ScenarioReactions)
            => IF \E i \in DOMAIN paths_changed : EndsInConf(paths_changed[i])
               THEN Executed(p) = <<SvcRollback, SvcBuild>>
               ELSE Executed(p) = <<SvcBuild, SvcDeploy>>

\* the scenario with app.conf changed, at the end of the pass
ConcreteScenarioWitness ==
    \E p \in passes :
        /\ pc[p] = "done"
        /\ actions = ScenarioCatalog
        /\ reactions = ScenarioReactions
        /\ paths_changed = <<AppConf>>
        /\ Executed(p) = <<SvcRollback, SvcBuild>>

\* the scenario with readme.md changed, at the end of the pass
ConcreteScenarioNoMatchReached ==
    \E p \in passes :
        /\ pc[p] = "done"
        /\ actions = ScenarioCatalog
        /\ reactions = ScenarioReactions
        /\ paths_changed = <<ReadmeMd>>
        /\ Executed(p) = <<SvcBuild, SvcDeploy>>

\* the entry a step of pass p added to its log, when it added one
Logged(p) == Len(log'[p]) = Len(log[p]) + 1
Last(s) == s[Len(s)]

(***************************************************************************)
(* C11  Command-probe trigger: a reaction with a command trigger fires iff *)
(* the probe's exit status equals the trigger's exitcode; any other        *)
(* status, zero or not, is no error, runs none of the reaction's actions,  *)
(* leaves done_actions unchanged, and the pass goes on with the next       *)
(* reaction.                                                               *)
(***************************************************************************)
CommandProbe ==
    /\ [](\A p \in passes : \A i \in DOMAIN log[p] :
            (log[p][i].ev = "when_command" /\ log[p][i].ret # NoStatus /\ ~log[p][i].fired)
                => \A j \in DOMAIN log[p] :
                       log[p][j].ri = log[p][i].ri => log[p][j].ai = 0)
    /\ [][\A p \in passes :
            (Logged(p) /\ Last(log'[p]).ev = "when_command" /\ Last(log'[p]).ret # NoStatus)
                => /\ Last(log'[p]).fired <=> Last(log'[p]).ret = reaction_at(p).when.exitcode
                   /\ done_actions'[p] = done_actions[p]
                   /\ IF Last(log'[p]).fired
                      THEN pc'[p] = "execute" /\ ri'[p] = ri[p] /\ ai'[p] = 1
                      ELSE pc'[p] = "reaction" /\ ri'[p] = ri[p] + 1
      ]_vars

\* a pass that returned after a probe for exit code 1 exited with 0: the
\* reaction did not fire, and the reaction after it ran an action
CommandProbeWitness ==
    \E p \in passes :
        /\ pc[p] = "done"
        /\ \E i, j \in DOMAIN log[p] :
             /\ log[p][i].ev = "when_command"
             /\ log[p][i].ret = 0
             /\ ~log[p][i].fired
             /\ i < j
             /\ log[p][j].ev = "run"

\* a probe for exit code 0 that exited with a non-zero status
CommandProbeNonZeroReached ==
    \E p \in passes :
        /\ pc[p] = "done"
        /\ \E i \in DOMAIN log[p] :
             /\ log[p][i].ev = "when_command"
             /\ log[p][i].ret > 0
             /\ ~log[p][i].fired
             /\ reactions[log[p][i].ri].when.exitcode = 0

(***************************************************************************)
(* C12  Namespacing idempotence: qualify keeps a name with a '.' and puts  *)
(* service_name + '.' before any other, so qualifying a qualified name     *)
(* changes nothing; so it is for the not_after entries of the catalog and  *)
(* the execute entries of the reaction list.                               *)
(***************************************************************************)
ServiceNames == {Svc, <<"s">>, <<>>, <<"s", ".", "v">>}

\* the names in the documents, raw or namespaced
ReferenceNames ==
    UNION {Range(action_desc[k].not_after) :
             k \in {j \in DOMAIN action_desc : "not_after" \in DOMAIN action_desc[j]}}
    \cup UNION {Range(reactions_desc[r].execute) : r \in DOMAIN reactions_desc}
    \cup DOMAIN action_desc

NamespacingIdempotent ==
    /\ \A s \in ServiceNames : \A n \in ReferenceNames :
         /\ qualify(s, qualify(s, n)) = qualify(s, n)
         /\ HasDot(n) => qualify(s, n) = n
         /\ ~HasDot(n) => qualify(s, n) = s \o <<".">> \o n
    /\ \A k \in DOMAIN actions :
         "not_after" \in DOMAIN actions[k]
             => /\ \A i \in DOMAIN actions[k].not_after :
                     qualify(service_name, actions[k].not_after[i]) = actions[k].not_after[i]
                /\ \E j \in DOMAIN action_desc0 :
                     /\ k = service_name \o <<".">> \o j
                     /\ Len(actions[k].not_after) = Len(action_desc0[j].not_after)
                     /\ \A i \in DOMAIN actions[k].not_after :
                          actions[k].not_after[i] \in
                              {action_desc0[j].not_after[i],
                               service_name \o <<".">> \o action_desc0[j].not_after[i]}
    /\ \A r \in DOMAIN reactions : \A i \in DOMAIN reactions[r].execute :
         qualify(service_name, reactions[r].execute[i]) = reactions[r].execute[i]

\* both loaders returned, for documents that named an action of not_after and
\* an action to execute without the service
NamespacingIdempotentWitness ==
    /\ load = "loaded"
    /\ \E k \in DOMAIN action_desc0 :
         /\ "not_after" \in DOMAIN action_desc0[k]
         /\ \E i \in DOMAIN action_desc0[k].not_after : ~HasDot(action_desc0[k].not_after[i])
    /\ \E r \in DOMAIN reactions : SvcBuild \in Range(reactions[r].execute)
    /\ \E r \in DOMAIN reactions : SvcDeploy \in Range(reactions[r].execute)

(***************************************************************************)
(* C13  Catalog naming: when a local action key contains '.',              *)
(* get_service_actions raises and returns no catalog; otherwise the keys   *)
(* of the catalog it returns are service_name + '.' + local key, one for   *)
(* each local key.                                                         *)
(***************************************************************************)
DottedKey == \E k \in DOMAIN action_desc0 : HasDot(k)

CatalogNaming ==
    load # "start" =>
        IF DottedKey
        THEN /\ load \in {"ValueError", "ValidationError"}
             /\ actions = <<>>
             /\ (\A k \in DOMAIN action_desc0 : validate_action(action_desc0[k]))
                    => load = "ValueError"
        ELSE /\ load # "ValueError"
             /\ load \in {"actions", "loaded"} \/ actions # <<>>
                    => /\ DOMAIN actions =
                            {service_name \o <<".">> \o k : k \in DOMAIN action_desc0}
                       /\ Cardinality(DOMAIN actions) = Cardinality(DOMAIN action_desc0)
                       /\ \A k \in DOMAIN action_desc0 :
                            actions[service_name \o <<".">> \o k].command
                                = action_desc0[k].command

\* get_service_actions raised for a key with a '.', next to a key without
CatalogNamingWitness ==
    /\ load = "ValueError"
    /\ actions = <<>>
    /\ DottedKey
    /\ \E k \in DOMAIN action_desc0 : ~HasDot(k)

\* get_service_actions returned a catalog of three keys
CatalogNamingCatalogReached ==
    /\ load = "actions"
    /\ ~DottedKey
    /\ DOMAIN actions = {SvcBuild, SvcDeploy, SvcRollback}

(***************************************************************************)
(* C14  get_service_actions as a pure transform: after it returns or       *)
(* raises, the raw action documents are as they were given.  (It is not:   *)
(* line 91 assigns the namespaced list back into the document.)            *)
(***************************************************************************)
PureTransform == load # "start" => action_desc = action_desc0

(***************************************************************************)
(* C14, as the code has it: get_service_actions changes nothing but the    *)
(* not_after lists of the raw documents.  The keys and every other field   *)
(* stay; a document is as given or has its not_after namespaced; when the  *)
(* catalog is returned every document's not_after is namespaced and the    *)
(* catalog's values are the raw documents themselves.                      *)
(***************************************************************************)
NotAfterRewrittenInPlace ==
    load # "start" =>
        /\ DOMAIN action_desc = DOMAIN action_desc0
        /\ \A k \in DOMAIN action_desc :
             /\ DOMAIN action_desc[k] = DOMAIN action_desc0[k]
             /\ \A f \in DOMAIN action_desc[k] \ {"not_after"} :
                  action_desc[k][f] = action_desc0[k][f]
             /\ "not_after" \in DOMAIN action_desc[k] =>
                  action_desc[k].not_after \in
                      {action_desc0[k].not_after,
                       qualify_all(service_name, action_desc0[k].not_after)}
        /\ load \in {"actions", "loaded"} =>
             \A k \in DOMAIN action_desc :
                /\ "not_after" \in DOMAIN action_desc[k] =>
                     action_desc[k].not_after
                         = qualify_all(service_name, action_desc0[k].not_after)
                /\ actions[service_name \o <<".">> \o k] = action_desc[k]

\* get_service_actions returned and a raw document's not_after differs from
\* the one given
NotAfterRewrittenInPlaceWitness ==
    /\ load = "actions"
    /\ \E k \in DOMAIN action_desc :
         /\ "not_after" \in DOMAIN action_desc[k]
         /\ action_desc[k].not_after # action_desc0[k].not_after

\* get_service_actions raised after it rewrote a raw document
NotAfterRewrittenThenRaisedReached ==
    /\ load = "ValueError"
    /\ action_desc # action_desc0

(***************************************************************************)
(* A pass that is run again after it failed: react is called a second time *)
(* with the same catalog, reactions and changed paths once the first call  *)
(* has raised CalledProcessError.                                          *)
(***************************************************************************)
InitOf(descs, rdescs, pathlists, ps) ==
    /\ service_name = Svc
    /\ action_desc \in descs
    /\ action_desc0 = action_desc
    /\ actions = <<>>
    /\ reactions_desc \in rdescs
    /\ reactions = <<>>
    /\ paths_changed \in pathlists
    /\ load = "start"
    /\ passes = ps
    /\ pc = [p \in passes |-> "idle"]
    /\ ri = [p \in passes |-> 0]
    /\ ai = [p \in passes |-> 0]
    /\ done_actions = [p \in passes |-> {}]
    /\ log = [p \in passes |-> <<>>]

(***************************************************************************)
(* The two loaders alone, over all the documents.                          *)
(***************************************************************************)
InitLoad == InitOf(ActionDescs, ReactionDescs, {<<>>}, {1})

NextLoad ==
    \/ get_service_actions
    \/ get_reactions

SpecLoad == InitLoad /\ [][NextLoad]_vars

RetryActionDescs ==
    {d \in ActionDescs : DOMAIN d = {Build, Deploy, Rollback} /\ d[Build] = Doc("make")}

RetryReactionPool ==
    { [execute |-> <<Build>>],
      [execute |-> <<SvcBuild, SvcDeploy>>],
      [execute |-> <<SvcRollback>>, when |-> [files |-> <<StarConf>>]],
      [execute |-> <<Deploy, Build>>, when |-> When("test -e flag", 0)] }

RetryReactionDescs == UNION {[1..n -> RetryReactionPool] : n \in 0..MaxReactions}

InitRetry == InitOf(RetryActionDescs, RetryReactionDescs, {<<>>, <<AppConf>>}, {1, 2})

\* the second call of react
react_retry ==
    /\ pc[1] = "CalledProcessError"
    /\ react_begin(2)

NextRetry ==
    \/ get_service_actions
    \/ get_reactions
    \/ react_begin(1)
    \/ react_retry
    \/ \E p \in passes : react_end(p)
    \/ \E p \in passes : react_no_when(p)
    \/ \E p \in passes : react_when_command(p)
    \/ \E p \in passes : react_when_files(p)
    \/ \E p \in passes : react_next_reaction(p)
    \/ \E p \in passes : react_skip_done(p)
    \/ \E p \in passes : react_skip_not_after(p)
    \/ \E p \in passes : react_run(p)

SpecRetry == InitRetry /\ [][NextRetry]_vars

\* the second pass has met the same trigger results and command results as
\* the first up to the first pass's failing command
Replayed ==
    /\ Len(log[2]) >= Len(log[1])
    /\ \A i \in 1..(Len(log[1]) - 1) : log[2][i] = log[1][i]

\* the second call starts with an empty done_actions and, when it gets as far
\* as the first call did, invokes the failed action's command again
RetryStartsEmpty ==
    /\ pc[2] # "idle" => pc[1] = "CalledProcessError"
    /\ done_actions[2] =
         {log[2][i].action : i \in {k \in DOMAIN log[2] :
                                      log[2][k].ev = "run" /\ log[2][k].out = "ok"}}
    /\ (pc[2] # "idle" /\ Replayed) =>
         /\ log[2][Len(log[1])].ev = "run"
         /\ log[2][Len(log[1])].action = Last(log[1]).action

SoftSkip ==
    /\ [](\A p \in passes : \A i \in DOMAIN log[p] :
            /\ log[p][i].ev = "run"
                 => DoneBefore(p, i) \cap not_after_of(actions[log[p][i].action]) = {}
            /\ log[p][i].ev = "skip_not_after"
                 => /\ log[p][i].action \notin done_actions[p]
                    /\ \E b \in not_after_of(actions[log[p][i].action]) :
                          \E j \in 1..(i - 1) :
                             /\ log[p][j].ev = "run"
                             /\ log[p][j].out = "ok"
                             /\ log[p][j].action = b
                    /\ i = Len(log[p]) => pc[p] \in {"execute", "reaction", "done"})
    /\ [][\A p \in passes :
            /\ (Logged(p) /\ Last(log'[p]).ev = "run")
                 => done_actions[p] \cap not_after_of(actions[Last(log'[p]).action]) = {}
            /\ (Logged(p) /\ Last(log'[p]).ev = "skip_not_after")
                 => /\ done_actions[p] \cap not_after_of(actions[Last(log'[p]).action]) # {}
                    /\ done_actions'[p] = done_actions[p]
                    /\ pc'[p] = "execute"
                    /\ ri'[p] = ri[p]
                    /\ ai'[p] = ai[p] + 1
            /\ (/\ Logged(p)
                /\ pc[p] = "execute"
                /\ action_at(p) \in DOMAIN actions
                /\ action_at(p) \notin done_actions[p]
                /\ done_actions[p] \cap not_after_of(actions[action_at(p)]) # {})
                 => Last(log'[p]).ev = "skip_not_after" ]_vars

\* a pass that skipped an action for its not_after, later ran an action that
\* has the skipped one in its not_after, and returned
SoftSkipWitness ==
    \E p \in passes :
        /\ pc[p] = "done"
        /\ \E i, j \in DOMAIN log[p] :
             /\ i < j
             /\ log[p][i].ev = "skip_not_after"
             /\ log[p][j].ev = "run"
             /\ log[p][i].action \in not_after_of(actions[log[p][j].action])

(***************************************************************************)
(* Passes over one reaction with a file trigger, for every short list of   *)
(* patterns and every short list of changed paths.                         *)
(***************************************************************************)
MaxPatterns == 2
MaxPaths    == 2

Conf == <<"c", "o", "n", "f">>

FilePatterns == {StarConf, QMd, AppConf, Conf}
FilePaths    == {AppConf, ReadmeMd, Conf}

FilesReactionDescs ==
    {<<[execute |-> <<Build>>, when |-> [files |-> f]], [execute |-> <<Deploy>>]>> :
        f \in UNION {[1..n -> FilePatterns] : n \in 0..MaxPatterns}}

FilesPathLists == UNION {[1..n -> FilePaths] : n \in 0..MaxPaths}

InitFiles ==
    InitOf({d \in RetryActionDescs : d[Deploy] = Doc("make deploy")},
           FilesReactionDescs, FilesPathLists, {1})

NextFiles ==
    \/ get_service_actions
    \/ get_reactions
    \/ \E p \in passes : react_begin(p)
    \/ \E p \in passes : react_end(p)
    \/ \E p \in passes : react_no_when(p)
    \/ \E p \in passes : react_when_files(p)
    \/ \E p \in passes : react_next_reaction(p)
    \/ \E p \in passes : react_run(p)

SpecFiles == InitFiles /\ [][NextFiles]_vars

\* what each of FilePatterns matches, spelled out: "*.conf" a path that ends
\* in ".conf", "readm?.md" a path of nine characters that differs from it at
\* most at the sixth, a pattern without '*' and '?' the path equal to it
PatternMatches(path, pat) ==
    IF pat = StarConf THEN EndsInConf(path)
    ELSE IF pat = QMd
         THEN /\ Len(path) = Len(QMd)
              /\ \A i \in DOMAIN QMd : i # 6 => path[i] = QMd[i]
         ELSE path = pat

(***************************************************************************)
(* C17  File-match trigger: a reaction with a files trigger fires iff some *)
(* pattern matches some changed path, so never with no pattern or no       *)
(* changed path; when it does not fire none of its actions is run and no   *)
(* error is raised.                                                        *)
(***************************************************************************)
FileTrigger ==
    \A p \in passes : \A i \in DOMAIN log[p] :
        log[p][i].ev = "when_files" =>
            LET files == reactions[log[p][i].ri].when.files
            IN  /\ log[p][i].fired <=>
                      \E a \in DOMAIN files : \E b \in DOMAIN paths_changed :
                          PatternMatches(paths_changed[b], files[a])
                /\ (files = <<>> \/ paths_changed = <<>>) => ~log[p][i].fired
                /\ ~log[p][i].fired =>
                      /\ \A j \in DOMAIN log[p] :
                            log[p][j].ri = log[p][i].ri => log[p][j].ai = 0
                      /\ i = Len(log[p]) => pc[p] \in {"reaction", "done"}

\* a file trigger fired on its second pattern and the second changed path
FileTriggerWitness ==
    \E p \in passes :
        /\ pc[p] = "done"
        /\ \E i \in DOMAIN log[p] :
             /\ log[p][i].ev = "when_files"
             /\ log[p][i].fired
             /\ Len(paths_changed) = 2
             /\ ~_checkfiles(reactions[log[p][i].ri].when.files, <<paths_changed[1]>>)
             /\ ~_checkfiles(<<reactions[log[p][i].ri].when.files[1]>>, paths_changed)
        /\ Executed(p) = <<SvcBuild, SvcDeploy>>

\* a file trigger with patterns and changed paths and no match did not fire,
\* and the pass went on to the next reaction and returned
FileTriggerSkipReached ==
    \E p \in passes :
        /\ pc[p] = "done"
        /\ \E i \in DOMAIN log[p] :
             /\ log[p][i].ev = "when_files"
             /\ ~log[p][i].fired
             /\ Len(reactions[log[p][i].ri].when.files) = 2
             /\ Len(paths_changed) = 2
        /\ Executed(p) = <<SvcDeploy>>

(***************************************************************************)
(* Two calls of react over the same catalog, reactions and changed paths,  *)
(* their steps interleaved in any way.                                     *)
(***************************************************************************)
InitConcurrent ==
    InitOf(RetryActionDescs, RetryReactionDescs, {<<AppConf>>}, {1, 2})

NextConcurrent ==
    \/ get_service_actions
    \/ get_reactions
    \/ \E p \in passes : react_begin(p)
    \/ \E p \in passes : react_end(p)
    \/ \E p \in passes : react_no_when(p)
    \/ \E p \in passes : react_when_command(p)
    \/ \E p \in passes : react_when_files(p)
    \/ \E p \in passes : react_next_reaction(p)
    \/ \E p \in passes : react_skip_done(p)
    \/ \E p \in passes : react_skip_not_after(p)
    \/ \E p \in passes : react_run(p)

SpecConcurrent == InitConcurrent /\ [][NextConcurrent]_vars

(***************************************************************************)
(* C18  Pass isolation: each call of react has its own done_actions, so    *)
(* however the steps of two passes interleave, a pass skips an action as   *)
(* done, or for its not_after, on account of the actions it ran itself     *)
(* only, and it invokes no action's command more than once.                *)
(***************************************************************************)
PassIsolation ==
    \A p \in passes :
        /\ done_actions[p] =
             {log[p][i].action : i \in {k \in DOMAIN log[p] :
                                          log[p][k].ev = "run" /\ log[p][k].out = "ok"}}
        /\ \A i \in Considered(p) :
             LET a == log[p][i].action
                 own == DoneBefore(p, i)
             IN  /\ log[p][i].ev = "skip_done" <=> a \in own
                 /\ log[p][i].ev = "skip_not_after"
                       <=> (a \notin own /\ own \cap not_after_of(actions[a]) # {})
                 /\ log[p][i].ev = "run"
                       <=> (a \notin own /\ own \cap not_after_of(actions[a]) = {})
        /\ \A a \in DOMAIN actions : Invocations(p, a) <= 1

\* both passes are under way, each has run the same action, and one of them
\* has since skipped it as done
PassIsolationWitness ==
    /\ pc[1] = "execute"
    /\ pc[2] = "execute"
    /\ \E a \in done_actions[1] \cap done_actions[2] :
         /\ Invocations(1, a) = 1
         /\ Invocations(2, a) = 1
         /\ \E i \in DOMAIN log[2] : log[2][i].ev = "skip_done" /\ log[2][i].action = a
    /\ done_actions[1] # done_actions[2]

(***************************************************************************)
(* C19  Completion postcondition: when react returns, every action that a  *)
(* reaction that fired refers to is in done_actions or has an action of    *)
(* its not_after in done_actions, and every action in done_actions is a    *)
(* key of the catalog that a reaction that fired refers to.                *)
(***************************************************************************)
FiredReferences(p) == UNION {Range(reactions[r].execute) : r \in Fired(p)}

CompletionPostcondition ==
    \A p \in passes :
        pc[p] = "done" =>
            /\ \A a \in FiredReferences(p) :
                 /\ a \in DOMAIN actions
                 /\ \/ a \in done_actions[p]
                    \/ not_after_of(actions[a]) \cap done_actions[p] # {}
            /\ \A a \in done_actions[p] :
                 a \in DOMAIN actions /\ a \in FiredReferences(p)
            /\ \A r \in DOMAIN reactions :
                 r \in Fired(p) \/ \E i \in DOMAIN log[p] :
                                      log[p][i].ri = r /\ IsTrigger(log[p][i]) /\ ~log[p][i].fired

\* a pass returned with an action in done_actions, an action skipped for its
\* not_after, and a reaction that did not fire naming an action that is not
\* in done_actions
CompletionPostconditionWitness ==
    \E p \in passes :
        /\ pc[p] = "done"
        /\ done_actions[p] # {}
        /\ \E a \in FiredReferences(p) : a \notin done_actions[p]
        /\ \E r \in DOMAIN reactions :
             r \notin Fired(p) /\ Range(reactions[r].execute) \cap done_actions[p] = {}

(***************************************************************************)
(* C20  Trigger precedence: for a reaction whose `when` has both command   *)
(* and files, react decides by the probe alone: the reaction fires iff the *)
(* probe's status equals exitcode, whether or not a pattern matches a      *)
(* changed path.                                                           *)
(***************************************************************************)
BothTriggers(r) ==
    /\ "when" \in DOMAIN reactions[r]
    /\ "command" \in DOMAIN reactions[r].when
    /\ "files" \in DOMAIN reactions[r].when

TriggerPrecedence ==
    \A p \in passes : \A i \in DOMAIN log[p] :
        (IsTrigger(log[p][i]) /\ BothTriggers(log[p][i].ri)) =>
            /\ log[p][i].ev = "when_command"
            /\ log[p][i].ret # NoStatus =>
                 (log[p][i].fired <=> log[p][i].ret = reactions[log[p][i].ri].when.exitcode)
            /\ log[p][i].ret = NoStatus => ~log[p][i].fired

\* a reaction with both fired on its probe while no changed path matched its
\* patterns, its action ran and the pass returned
TriggerPrecedenceWitness ==
    \E p \in passes :
        /\ pc[p] = "done"
        /\ \E i \in DOMAIN log[p] :
             /\ BothTriggers(log[p][i].ri)
             /\ log[p][i].ev = "when_command"
             /\ log[p][i].fired
             /\ ~_checkfiles(reactions[log[p][i].ri].when.files, paths_changed)
             /\ \E j \in DOMAIN log[p] :
                  j > i /\ log[p][j].ev = "run" /\ log[p][j].ri = log[p][i].ri

\* a reaction with both was skipped on its probe while a changed path matched
\* its patterns
TriggerPrecedenceSkipReached ==
    \E p \in passes :
        /\ pc[p] = "done"
        /\ \E i \in DOMAIN log[p] :
             /\ BothTriggers(log[p][i].ri)
             /\ log[p][i].ev = "when_command"
             /\ ~log[p][i].fired
             /\ log[p][i].ret # NoStatus
             /\ _checkfiles(reactions[log[p][i].ri].when.files, paths_changed)
             /\ \A j \in DOMAIN log[p] : log[p][j].ri = log[p][i].ri => j = i

Spec == Init /\ [][Next]_vars

====
